---- MODULE Spec2Model ----
(***************************************************************************)
(* The persistence layer of dividend-seeker: scripts/sync_db.py upserts     *)
(* feed records into the stocks, snapshots and dividends tables and logs    *)
(* each run in the scans table.                                             *)
(*                                                                          *)
(* A table is a bag (multiset) of rows: SQL gives a table no order, and a   *)
(* bag can hold the duplicate rows that a missing conflict clause would     *)
(* produce.  The timestamp columns (updated_at) are left out: nothing here  *)
(* reads them.                                                              *)
(*                                                                          *)
(* web/app.py serves MAIN_LIST.json and keeps one analysis document per     *)
(* ticker in a cache directory; scripts/scan_dividends.py fetches the       *)
(* tickers of a market on a pool of worker threads.                         *)
(***************************************************************************)
EXTENDS Integers, Sequences, FiniteSets, Bags, TLC

VARIABLES stocks, snapshots, dividends, scans, op,
          main_list, cache, clock, resp,
          scan, futures, yielded, candidates

\* The database and the last call on it; the files and the clock of the web
\* application and its last response.
dbvars == <<stocks, snapshots, dividends, scans, op>>
webvars == <<main_list, cache, clock, resp>>
\* scan_market: where it is and its max_workers, the futures it submitted,
\* the futures as_completed has yielded, and its list of candidates.
scanvars == <<scan, futures, yielded, candidates>>
vars == <<dbvars, webvars, scanvars>>

----------------------------------------------------------------------------
(* Python / SQL values.  A value carries its type, so that None, 0, "" and  *)
(* False stay distinct values that are all falsy.                           *)

Null == <<"null">>
N(i) == <<"num", i>>
S(s) == <<"str", s>>
B(b) == <<"bool", b>>
\* An ISO date string 'YYYY-MM-DD', by its day number (ISO strings order by day).
D(i) == <<"date", i>>

\* Python truth value: None, 0, "" and False are falsy.
Truthy(v) ==
    CASE v[1] = "null" -> FALSE
      [] v[1] = "num"  -> v[2] # 0
      [] v[1] = "str"  -> v[2] # ""
      [] v[1] = "bool" -> v[2]
      [] v[1] = "date" -> TRUE

\* Python `a or b`.
Or(a, b) == IF Truthy(a) THEN a ELSE b

\* SQL COALESCE(a, b).
Coalesce(a, b) == IF a # Null THEN a ELSE b

\* A feed record is a dict: a function from its keys to values.
Has(d, k) == k \in DOMAIN d

\* dict.get(k) and dict.get(k, default).
Get(d, k) == IF k \in DOMAIN d THEN d[k] ELSE Null
GetD(d, k, dflt) == IF k \in DOMAIN d THEN d[k] ELSE dflt

\* The outcome of a call: the connection's tables, and whether it raised.
Conn == [stocks |-> stocks, snapshots |-> snapshots,
         dividends |-> dividends, scans |-> scans]
Returned(conn) == [raised |-> FALSE, conn |-> conn]
Raised(conn) == [raised |-> TRUE, conn |-> conn]

\* The rows of a table, and a table with one row replaced.
Rows(tbl) == BagToSet(tbl)
Replace(tbl, old, new) == (tbl (-) SetToBag({old})) (+) SetToBag({new})
Insert(tbl, new) == tbl (+) SetToBag({new})

----------------------------------------------------------------------------
(* sync_stock *)

\* The VALUES tuple of the INSERT INTO stocks statement.
stocks_values(stock, market) ==
    [ticker           |-> stock["ticker"],
     name             |-> Get(stock, "name"),
     sector           |-> Get(stock, "sector"),
     industry         |-> Get(stock, "industry"),
     currency         |-> Get(stock, "currency"),
     market           |-> Or(market, Get(stock, "ocean_market")),
     ocean_accessible |-> GetD(stock, "ocean_accessible", B(FALSE))]

\* Mutants of the DO UPDATE SET clause of stocks.
stocks_do_update_overwrite(old, excluded) == excluded
stocks_do_update_first_wins(old, excluded) ==
    [excluded EXCEPT !.market = Coalesce(old.market, excluded.market)]

\* ON CONFLICT(ticker) DO UPDATE SET ...
stocks_do_update(old, excluded) ==
    [ticker           |-> old.ticker,
     name             |-> excluded.name,
     sector           |-> excluded.sector,
     industry         |-> excluded.industry,
     currency         |-> excluded.currency,
     market           |-> Coalesce(excluded.market, old.market),
     ocean_accessible |-> excluded.ocean_accessible]

\* The rows the new row conflicts with on the key (ticker).
stocks_conflict(tbl, excluded) ==
    {r \in Rows(tbl) : r.ticker = excluded.ticker}

\* Mutant: a plain INSERT, no conflict clause.
stocks_upsert_plain_insert(tbl, excluded) == Insert(tbl, excluded)

\* INSERT INTO stocks ... ON CONFLICT(ticker) DO UPDATE
stocks_upsert(tbl, excluded) ==
    LET hit == stocks_conflict(tbl, excluded)
    IN  IF hit = {} THEN Insert(tbl, excluded)
        ELSE LET old == CHOOSE r \in hit : TRUE
             IN  Replace(tbl, old, stocks_do_update(old, excluded))

sync_stock(conn, stock, market) ==
    IF ~Has(stock, "ticker") THEN Raised(conn)   \* stock['ticker']: KeyError
    ELSE Returned([conn EXCEPT
             !.stocks = stocks_upsert(conn.stocks, stocks_values(stock, market))])

----------------------------------------------------------------------------
(* sync_snapshot *)

\* The VALUES tuple of the INSERT INTO snapshots statement.
snapshots_values(stock, scan_date) ==
    [ticker           |-> stock["ticker"],
     scan_date        |-> scan_date,
     price            |-> Get(stock, "price"),
     dividend_yield   |-> Or(Get(stock, "dividend_yield"), Get(stock, "yield")),
     dividend_rate    |-> Or(Get(stock, "dividend_rate"), Get(stock, "div_rate")),
     payout_ratio     |-> Or(Get(stock, "payout_ratio"), Get(stock, "payout")),
     pe_ratio         |-> Get(stock, "pe_ratio"),
     market_cap       |-> Get(stock, "market_cap"),
     week_52_high     |-> Get(stock, "52w_high"),
     week_52_low      |-> Get(stock, "52w_low"),
     change_6m        |-> Get(stock, "change_6m"),
     change_12m       |-> Get(stock, "change_12m"),
     dist_from_high   |-> Or(Get(stock, "dist_from_high"),
                             Get(stock, "discount_from_high")),
     max_drawdown_12m |-> Get(stock, "max_drawdown_12m"),
     beta             |-> Get(stock, "beta"),
     dividend_score   |-> Get(stock, "dividend_score"),
     capital_score    |-> Get(stock, "capital_score"),
     sustainable      |-> GetD(stock, "sustainable", B(TRUE))]

\* Mutant of the DO UPDATE SET clause of snapshots: a known score survives.
snapshots_do_update_keep_scores(old, excluded) ==
    [excluded EXCEPT !.dividend_score = Coalesce(excluded.dividend_score,
                                                 old.dividend_score),
                     !.capital_score = Coalesce(excluded.capital_score,
                                                old.capital_score)]

\* ON CONFLICT(ticker, scan_date) DO UPDATE SET ...: every other column.
snapshots_do_update(old, excluded) ==
    [ticker           |-> old.ticker,
     scan_date        |-> old.scan_date,
     price            |-> excluded.price,
     dividend_yield   |-> excluded.dividend_yield,
     dividend_rate    |-> excluded.dividend_rate,
     payout_ratio     |-> excluded.payout_ratio,
     pe_ratio         |-> excluded.pe_ratio,
     market_cap       |-> excluded.market_cap,
     week_52_high     |-> excluded.week_52_high,
     week_52_low      |-> excluded.week_52_low,
     change_6m        |-> excluded.change_6m,
     change_12m       |-> excluded.change_12m,
     dist_from_high   |-> excluded.dist_from_high,
     max_drawdown_12m |-> excluded.max_drawdown_12m,
     beta             |-> excluded.beta,
     dividend_score   |-> excluded.dividend_score,
     capital_score    |-> excluded.capital_score,
     sustainable      |-> excluded.sustainable]

\* Mutant: the conflict target is the ticker alone.
snapshots_conflict_ticker_only(tbl, excluded) ==
    {r \in Rows(tbl) : r.ticker = excluded.ticker}

\* The rows the new row conflicts with on the key (ticker, scan_date).
snapshots_conflict(tbl, excluded) ==
    {r \in Rows(tbl) : r.ticker = excluded.ticker
                       /\ r.scan_date = excluded.scan_date}

\* INSERT INTO snapshots ... ON CONFLICT(ticker, scan_date) DO UPDATE
snapshots_upsert(tbl, excluded) ==
    LET hit == snapshots_conflict(tbl, excluded)
    IN  IF hit = {} THEN Insert(tbl, excluded)
        ELSE LET old == CHOOSE r \in hit : TRUE
             IN  Replace(tbl, old, snapshots_do_update(old, excluded))

sync_snapshot(conn, stock, scan_date) ==
    IF ~Has(stock, "ticker") THEN Raised(conn)   \* stock['ticker']: KeyError
    ELSE Returned([conn EXCEPT
             !.snapshots = snapshots_upsert(conn.snapshots,
                                            snapshots_values(stock, scan_date))])

----------------------------------------------------------------------------
(* sync_dividend *)

\* The VALUES tuple of the INSERT INTO dividends statement.
dividends_values(stock, ex_date) ==
    [ticker   |-> stock["ticker"],
     ex_date  |-> ex_date,
     amount   |-> Get(stock, "dividend_rate"),
     currency |-> Get(stock, "currency")]

\* Mutant of the DO UPDATE SET clause of dividends: no COALESCE.
dividends_do_update_overwrite(old, excluded) == excluded

\* ON CONFLICT(ticker, ex_date) DO UPDATE SET ...
dividends_do_update(old, excluded) ==
    [old EXCEPT !.amount = Coalesce(excluded.amount, old.amount),
                !.currency = Coalesce(excluded.currency, old.currency)]

\* The rows the new row conflicts with on the key (ticker, ex_date).
dividends_conflict(tbl, excluded) ==
    {r \in Rows(tbl) : r.ticker = excluded.ticker
                       /\ r.ex_date = excluded.ex_date}

\* Mutant: a plain INSERT, no conflict clause.
dividends_upsert_plain_insert(tbl, excluded) == Insert(tbl, excluded)

\* INSERT INTO dividends ... ON CONFLICT(ticker, ex_date) DO UPDATE
dividends_upsert(tbl, excluded) ==
    LET hit == dividends_conflict(tbl, excluded)
    IN  IF hit = {} THEN Insert(tbl, excluded)
        ELSE LET old == CHOOSE r \in hit : TRUE
             IN  Replace(tbl, old, dividends_do_update(old, excluded))

\* Mutant: the missing date is not tested, the row is written with it.
sync_dividend_no_guard(conn, stock) ==
    IF ~Has(stock, "ticker") THEN Raised(conn)
    ELSE Returned([conn EXCEPT
             !.dividends = dividends_upsert(conn.dividends,
                 dividends_values(stock, Get(stock, "ex_dividend_date")))])

sync_dividend(conn, stock) ==
    LET ex_date == Get(stock, "ex_dividend_date")
    IN  IF ~Truthy(ex_date) THEN Returned(conn)       \* if not ex_date: return
        ELSE IF ~Has(stock, "ticker") THEN Raised(conn)  \* KeyError
        ELSE Returned([conn EXCEPT
                 !.dividends = dividends_upsert(conn.dividends,
                                                dividends_values(stock, ex_date))])

----------------------------------------------------------------------------
(* log_scan and sync_from_json *)

\* json_path.name of the default path.
MAIN_LIST == S("MAIN_LIST.json")

log_scan(conn, scan_date, total, source) ==
    Returned([conn EXCEPT !.scans = Insert(conn.scans,
        [scan_date |-> scan_date, total_scanned |-> N(total),
         candidates_found |-> N(total), source |-> source])])

tiers == <<"tier1_high_sustainable", "tier2_moderate_sustainable",
           "tier3_high_risk">>

\* data.get(tier, []) of every tier, concatenated.
RECURSIVE extend_tiers(_, _)
extend_tiers(data, i) ==
    IF i > Len(tiers) THEN <<>>
    ELSE GetD(data, tiers[i], <<>>) \o extend_tiers(data, i + 1)

\* The list of records sync_from_json reads out of the document.
json_stocks(data) ==
    IF Has(data, "candidates") THEN data["candidates"]
    ELSE extend_tiers(data, 1)

\* The body of the try block for one record.
sync_record(conn, stock, scan_date) ==
    LET a == sync_stock(conn, stock, Null)
    IN  IF a.raised THEN a
        ELSE LET b == sync_snapshot(a.conn, stock, scan_date)
             IN  IF b.raised THEN b
                 ELSE sync_dividend(b.conn, stock)

\* A for loop with the try around it instead of in it: the first record that
\* raises ends it.
RECURSIVE sync_loop_stop_at_failure(_, _, _, _)
sync_loop_stop_at_failure(conn, list, scan_date, total) ==
    IF list = <<>> THEN [conn |-> conn, total |-> total]
    ELSE LET r == sync_record(conn, Head(list), scan_date)
         IN  IF r.raised THEN [conn |-> r.conn, total |-> total]
             ELSE sync_loop_stop_at_failure(r.conn, Tail(list), scan_date,
                                            total + 1)

\* The for loop: the tables and the count of records that did not raise.
RECURSIVE sync_loop(_, _, _, _)
sync_loop(conn, list, scan_date, total) ==
    IF list = <<>> THEN [conn |-> conn, total |-> total]
    ELSE LET r == sync_record(conn, Head(list), scan_date)
         IN  sync_loop(r.conn, Tail(list), scan_date,
                       IF r.raised THEN total ELSE total + 1)

\* sync_from_json on a document that exists; `today` is datetime.now().
sync_from_json(conn, data, today) ==
    LET scan_date == GetD(data, "scan_date", today)
        done == sync_loop(conn, json_stocks(data), scan_date, 0)
        logged == log_scan(done.conn, scan_date, done.total, MAIN_LIST)
    IN  [conn |-> logged.conn, total |-> done.total, scan_date |-> scan_date]

----------------------------------------------------------------------------
(* scripts/scan_dividends.py: get_stock_data and the loop of scan_market *)

\* Maximum payout ratio %.
MAX_PAYOUT_RATIO == 100

\* "sustainable": payout_ratio <= MAX_PAYOUT_RATIO
sustainable_of(payout_ratio) == B(payout_ratio[2] <= MAX_PAYOUT_RATIO)

\* Minimum dividend yield %.
MIN_YIELD == 5

\* What a call returns: a dict, or None.
Some(value) == [none |-> FALSE, value |-> value]
None == [none |-> TRUE, value |-> [k \in {} |-> Null]]

\* get_stock_data(ticker), info being what yfinance gives: None when the
\* fetch raises or the yield is below MIN_YIELD, else the record.
get_stock_data(ticker, info) ==
    IF ~info.ok THEN None
    ELSE IF info.dividendYield < MIN_YIELD THEN None
    ELSE Some(("ticker" :> S(ticker))
              @@ ("dividend_yield" :> N(info.dividendYield))
              @@ ("payout_ratio" :> N(info.payoutRatio))
              @@ ("sustainable" :> sustainable_of(N(info.payoutRatio))))

\* A loop body that appends whatever the future holds.
collect_every_result(list, result) == Append(list, result.value)

\* The body of the as_completed loop: `if result: candidates.append(result)`.
collect(list, result) ==
    IF result.none THEN list ELSE Append(list, result.value)

----------------------------------------------------------------------------
(* web/app.py: the read API over MAIN_LIST.json and the analysis cache.     *)
(* A file is [exists, data]; disk is [main_list, cache], cache mapping the  *)
(* name of a cache file to the file.  A handler gives [status, body, disk]. *)

File(data) == [exists |-> TRUE, data |-> data]
NoFile == [exists |-> FALSE, data |-> [k \in {} |-> Null]]

\* jsonify(body), jsonify(body) with a status, and an exception that leaves
\* the view function (Flask answers 500).
Response(status, body, disk) == [status |-> status, body |-> body, disk |-> disk]
Unhandled(exception, disk) ==
    Response(500, [exception |-> S(exception)], disk)

\* round(num / den, 2), kept in hundredths.
round2(num, den) == <<"dec", (200 * num + den) \div (2 * den)>>

\* str.lower() and `sub in s` over the strings the requests and records hold.
str_lower(v) == IF v = S("DAX") THEN S("dax") ELSE v
str_in(sub, v) == sub = S("") \/ sub = v \/ (sub = S("sp") /\ v = S("sp500"))

\* The tuple a sort key lambda returns, compared as Python compares tuples.
tuple_gt(a, b) ==
    \E k \in 1..Len(a) : a[k] > b[k] /\ \A m \in 1..(k - 1) : a[m] = b[m]

\* list.sort(key=..., reverse=True), keys[i] the key of list[i]: descending,
\* and stable (records with equal keys keep their order).
sort_reverse(list, keys) ==
    LET n == Len(list)
        before(i, j) == tuple_gt(keys[i], keys[j]) \/ (keys[i] = keys[j] /\ i < j)
        pos(i) == 1 + Cardinality({j \in 1..n : before(j, i)})
    IN  [p \in 1..n |-> list[CHOOSE i \in 1..n : pos(i) = p]]

\* list[:n] for n >= 0.
take(list, n) == SubSeq(list, 1, IF n < Len(list) THEN n ELSE Len(list))

\* s.get(key, 0) of a numeric field.
num(s, key) == GetD(s, key, N(0))[2]

load_candidates(disk) ==
    IF disk.main_list.exists THEN disk.main_list.data
    ELSE (tiers[1] :> <<>>) @@ (tiers[2] :> <<>>) @@ (tiers[3] :> <<>>)

get_all_stocks(disk) ==
    LET data == load_candidates(disk)
    IN  IF Has(data, "stocks") THEN data["stocks"]
        ELSE GetD(data, tiers[1], <<>>) \o GetD(data, tiers[2], <<>>)
                \o GetD(data, tiers[3], <<>>)

\* The filter of api_stocks: the record is appended to `filtered`.
stocks_filter(s, q) ==
    /\ ~(num(s, "dividend_yield") < q.min_yield)
    /\ Truthy(q.market)
       => str_in(str_lower(q.market),
                 str_lower(Or(GetD(s, "ocean_market", S("")),
                              GetD(s, "market", S("")))))
    /\ ~(q.sustainable_only /\ ~Truthy(GetD(s, "sustainable", B(TRUE))))
    /\ ~(num(s, "dividend_score") < q.min_div_score)
    /\ ~(num(s, "capital_score") < q.min_cap_score)
    /\ ~(Truthy(q.asset_type) /\ GetD(s, "asset_type", S("stock")) # q.asset_type)
    /\ ~(q.stocks_only
         /\ GetD(s, "asset_type", S("stock")) \in {S("etf"), S("cef")})

\* A sort that leaves out the tie-break on the yield.
stocks_sort_key_no_tie_break(s, sort_by) ==
    IF sort_by = "score"
    THEN <<num(s, "dividend_score") + num(s, "capital_score")>>
    ELSE IF sort_by \in {"dividend_score", "capital_score"}
    THEN <<num(s, sort_by)>>
    ELSE <<num(s, "dividend_yield")>>

\* The key of the sort api_stocks does for sort_by.
stocks_sort_key(s, sort_by) ==
    IF sort_by = "score"
    THEN <<num(s, "dividend_score") + num(s, "capital_score"),
           num(s, "dividend_yield")>>
    ELSE IF sort_by = "dividend_score"
    THEN <<num(s, "dividend_score"), num(s, "dividend_yield")>>
    ELSE IF sort_by = "capital_score"
    THEN <<num(s, "capital_score"), num(s, "dividend_yield")>>
    ELSE <<num(s, "dividend_yield")>>

\* GET /api/stocks
api_stocks(disk, q) ==
    LET filtered == SelectSeq(get_all_stocks(disk), LAMBDA s : stocks_filter(s, q))
        keys == [i \in 1..Len(filtered) |-> stocks_sort_key(filtered[i], q.sort)]
    IN  Response(200, [list |-> take(sort_reverse(filtered, keys), q.limit)], disk)

\* sum(yields), max(yields), min(yields) over s.get('dividend_yield', 0).
RECURSIVE sum_yield(_)
sum_yield(list) ==
    IF list = <<>> THEN 0 ELSE num(Head(list), "dividend_yield") + sum_yield(Tail(list))
max_yield(list) ==
    CHOOSE y \in {num(list[i], "dividend_yield") : i \in 1..Len(list)} :
        \A i \in 1..Len(list) : num(list[i], "dividend_yield") <= y
min_yield(list) ==
    CHOOSE y \in {num(list[i], "dividend_yield") : i \in 1..Len(list)} :
        \A i \in 1..Len(list) : num(list[i], "dividend_yield") >= y

\* GET /api/stats
api_stats(disk) ==
    LET list == get_all_stocks(disk)
        data == load_candidates(disk)
    IN  IF list = <<>>
        THEN Response(200, [total_stocks |-> N(0), avg_yield |-> N(0),
                            max_yield |-> N(0), min_yield |-> N(0),
                            tier1_count |-> N(0), last_scan |-> Null], disk)
        ELSE Response(200,
                [total_stocks |-> N(Len(list)),
                 avg_yield |-> round2(sum_yield(list), Len(list)),
                 max_yield |-> round2(max_yield(list), 1),
                 min_yield |-> round2(min_yield(list), 1),
                 tier1_count |-> N(Len(GetD(data, tiers[1], <<>>))),
                 last_scan |-> GetD(data, "scan_date", S("2026-02-15"))], disk)

\* The records api_top_scores appends to `scored`, s['total_score'] set.
top_scored(s, min) ==
    /\ ~(num(s, "dividend_yield") < min)
    /\ Truthy(GetD(s, "dividend_score", N(0)))
    /\ Truthy(GetD(s, "capital_score", N(0)))
with_total_score(s) ==
    ("total_score" :> N(num(s, "dividend_score") + num(s, "capital_score"))) @@ s

\* scored[:limit] after the sort by (total_score, dividend_yield).
top_scores_list(disk, limit, min) ==
    LET kept == SelectSeq(get_all_stocks(disk), LAMBDA s : top_scored(s, min))
        scored == [i \in 1..Len(kept) |-> with_total_score(kept[i])]
        keys == [i \in 1..Len(scored) |->
                    <<scored[i]["total_score"][2], num(scored[i], "dividend_yield")>>]
    IN  take(sort_reverse(scored, keys), limit)

\* /api/top-scores with the scored records written back to MAIN_LIST.json.
api_top_scores_write_back(disk, limit, min) ==
    LET list == top_scores_list(disk, limit, min)
    IN  Response(200, [list |-> list],
                 [disk EXCEPT !.main_list = File(("stocks" :> list))])

\* GET /api/top-scores
api_top_scores(disk, limit, min) ==
    Response(200, [list |-> top_scores_list(disk, limit, min)], disk)

\* `for s in stocks: if s['ticker'] == ticker`: the first record that has no
\* ticker (KeyError) or has this one.
find_stock(list, ticker) ==
    LET stops == {i \in 1..Len(list) :
                     ~Has(list[i], "ticker") \/ list[i]["ticker"] = ticker}
    IN  IF stops = {} THEN [raised |-> FALSE, found |-> FALSE, stock |-> NoFile.data]
        ELSE LET i == CHOOSE k \in stops : \A m \in stops : k <= m
             IN  IF Has(list[i], "ticker")
                 THEN [raised |-> FALSE, found |-> TRUE, stock |-> list[i]]
                 ELSE [raised |-> TRUE, found |-> FALSE, stock |-> NoFile.data]

NotFound(disk) == Response(404, [error |-> S("Stock not found")], disk)

\* GET /api/stock/<ticker>
api_stock_detail(disk, ticker) ==
    LET f == find_stock(get_all_stocks(disk), ticker)
    IN  IF f.raised THEN Unhandled("KeyError", disk)
        ELSE IF f.found
        THEN Response(200, [current |-> f.stock, history |-> <<>>,
                            dividends |-> <<>>], disk)
        ELSE NotFound(disk)

\* 24 hours, in seconds.
DAY == 86400

\* f'{ticker.replace(".", "_")}.json'
replace_dots(t) == IF t = "A.B" THEN "A_B" ELSE t
cache_file(ticker) == replace_dots(ticker[2]) \o ".json"

get_cached_analysis(disk, ticker) ==
    IF cache_file(ticker) \in DOMAIN disk.cache
    THEN File(disk.cache[cache_file(ticker)])
    ELSE NoFile

save_analysis(disk, ticker, analysis) ==
    [disk EXCEPT !.cache = (cache_file(ticker) :> analysis) @@ disk.cache]

\* generate_analysis at time `now`; info is what yfinance gives: [ok, price],
\* ok false when the fetch raises.
generate_analysis(disk, ticker, now, info) ==
    IF info.ok
    THEN LET analysis == [ticker |-> ticker, analyzed_at |-> <<"time", now>>,
                          price |-> info.price]
         IN  [analysis |-> analysis, disk |-> save_analysis(disk, ticker, analysis)]
    ELSE [analysis |-> [error |-> S("exception"), ticker |-> ticker],
          disk |-> disk]

\* A freshness test that takes any cached document.
cache_is_fresh_always(cached, now) == TRUE

\* The freshness test of api_stock_full: analyzed_at defaults to '2000-01-01',
\* more than a day before any request, and a value that is no timestamp makes
\* fromisoformat raise into `except: pass`.
cache_is_fresh(cached, now) ==
    LET at == GetD(cached, "analyzed_at", <<"time", 0 - DAY>>)
    IN  at[1] = "time" /\ now - at[2] < DAY

\* GET /api/stock/<ticker>/full
api_stock_full(disk, ticker, now, info) ==
    LET f == find_stock(get_all_stocks(disk), ticker)
        cached == get_cached_analysis(disk, ticker)
    IN  IF f.raised THEN Unhandled("KeyError", disk)
        ELSE IF ~f.found THEN NotFound(disk)
        ELSE IF /\ cached.exists
                /\ DOMAIN cached.data # {}
                /\ cache_is_fresh(cached.data, now)
        THEN Response(200, [stock |-> f.stock, analysis |-> cached.data,
                            cached |-> TRUE], disk)
        ELSE LET g == generate_analysis(disk, ticker, now, info)
             IN  Response(200, [stock |-> f.stock, analysis |-> g.analysis,
                                cached |-> FALSE], g.disk)

\* The elements of a set of positions, ascending.
ascending(set) ==
    [p \in 1..Cardinality(set) |->
        CHOOSE i \in set : Cardinality({j \in set : j < i}) = p - 1]

\* GET /api/markets
api_markets(disk) ==
    LET list == get_all_stocks(disk)
        m(i) == GetD(list[i], "ocean_market", S("Unknown"))
        firsts == ascending({i \in 1..Len(list) : \A j \in 1..(i - 1) : m(j) # m(i)})
        of(i) == SelectSeq(list, LAMBDA s : GetD(s, "ocean_market", S("Unknown")) = m(i))
        result == [p \in 1..Len(firsts) |->
                     [market |-> m(firsts[p]),
                      count |-> N(Len(of(firsts[p]))),
                      avg_yield |-> round2(sum_yield(of(firsts[p])),
                                           Len(of(firsts[p])))]]
        keys == [p \in 1..Len(result) |-> <<result[p].count[2]>>]
    IN  Response(200, [list |-> sort_reverse(result, keys)], disk)

\* GET /api/top/<n>
api_top(disk, n) ==
    LET list == get_all_stocks(disk)
        keys == [i \in 1..Len(list) |-> <<num(list[i], "dividend_yield")>>]
    IN  Response(200, [list |-> take(sort_reverse(list, keys), n)], disk)

----------------------------------------------------------------------------
(* Bounds and inputs *)

\* The scans table grows with every run: runs stop at MaxScans rows.
MaxScans == 2

\* Scan dates and ex-dividend dates: two days.
Dates == {D(1), D(2)}

\* A key left out of a dict.
Absent == <<"absent">>
NoDict == [k \in {} |-> Null]
Opt(k, v) == IF v = Absent THEN NoDict ELSE k :> v

AAA == S("AAA")
BBB == S("BBB")

\* Records that differ in what sync_stock reads.
StockInputs ==
    {Opt("ticker", t) @@ Opt("name", n) @@ Opt("ocean_market", m) :
        t \in {Absent, AAA, BBB},
        n \in {Absent, S("Alpha")},
        m \in {Absent, Null, S(""), S("sp500"), S("dax")}}

\* The market argument of sync_stock.
MarketArgs == {Null, S(""), S("nyse")}

\* Records that differ in what sync_snapshot reads: the yield and its alias,
\* the payout ratio and the sustainable flag, the scores, the other aliases.
SnapshotInputs ==
    {("ticker" :> AAA) @@ Opt("dividend_yield", y) @@ Opt("yield", a) :
        y \in {Absent, N(0), N(6)}, a \in {Absent, N(5)}}
    \cup
    {("ticker" :> AAA) @@ ("payout_ratio" :> N(40)),
     ("ticker" :> AAA) @@ ("payout_ratio" :> N(150)),
     ("ticker" :> AAA) @@ ("payout_ratio" :> N(40))
        @@ ("sustainable" :> B(FALSE)),
     ("ticker" :> AAA) @@ ("dividend_yield" :> N(6))
        @@ ("dividend_score" :> N(3)) @@ ("capital_score" :> N(4)),
     ("ticker" :> AAA) @@ ("dividend_rate" :> N(0)) @@ ("div_rate" :> N(1))
        @@ ("payout_ratio" :> N(0)) @@ ("payout" :> N(80))
        @@ ("dist_from_high" :> N(0)) @@ ("discount_from_high" :> N(12)),
     ("ticker" :> BBB) @@ ("dividend_yield" :> N(4))
        @@ ("payout_ratio" :> N(150)),
     ("name" :> S("Ghost")) @@ ("dividend_yield" :> N(7))}

\* Records that differ in what sync_dividend reads.
DividendInputs ==
    {("ticker" :> AAA) @@ Opt("ex_dividend_date", e)
        @@ Opt("dividend_rate", r) @@ Opt("currency", c) :
        e \in Dates \cup {Absent, Null, S("")},
        r \in {Absent, N(0), N(2)},
        c \in {Absent, S("USD")}}
    \cup
    {("ticker" :> BBB) @@ ("ex_dividend_date" :> D(1))
        @@ ("dividend_rate" :> N(2)) @@ ("currency" :> S("EUR")),
     ("name" :> S("Ghost")) @@ ("ex_dividend_date" :> D(1)),
     ("name" :> S("Ghost")) @@ ("dividend_rate" :> N(2))}

\* Whole feed records, as the scanner writes them and as a hand-edited list
\* may hold them.
FeedRecords ==
    {("ticker" :> AAA) @@ ("name" :> S("Alpha")) @@ ("ocean_market" :> S("sp500"))
        @@ ("currency" :> S("USD")) @@ ("dividend_yield" :> N(6))
        @@ ("dividend_rate" :> N(2)) @@ ("payout_ratio" :> N(40))
        @@ ("dividend_score" :> N(3)) @@ ("capital_score" :> N(4))
        @@ ("ex_dividend_date" :> D(1)) @@ ("sustainable" :> B(TRUE)),
     ("ticker" :> AAA) @@ ("ex_dividend_date" :> D(1)),
     ("ticker" :> BBB) @@ ("ocean_market" :> S("dax"))
        @@ ("dividend_yield" :> N(4)) @@ ("payout_ratio" :> N(150))
        @@ ("sustainable" :> B(FALSE)),
     ("name" :> S("Ghost")) @@ ("ex_dividend_date" :> D(1))}

\* Lists of at most one and of at most two feed records.
ShortFeeds == {<<>>} \cup {<<r>> : r \in FeedRecords}
Feeds == ShortFeeds \cup {<<r, q>> : r \in FeedRecords, q \in FeedRecords}

\* MAIN_LIST documents: the flat list with or without its scan_date, and the
\* tiers (the third one left out when it is empty).
Documents ==
    {("candidates" :> f) @@ ("scan_date" :> d) : f \in Feeds, d \in Dates}
    \cup
    {("candidates" :> f) : f \in ShortFeeds}
    \cup
    {("scan_date" :> D(1)) @@ (tiers[1] :> t1)
        @@ (IF t3 = <<>> THEN NoDict ELSE tiers[3] :> t3) :
        t1 \in ShortFeeds, t3 \in ShortFeeds}

\* The records of the collection the web application reads.
CCC == S("CCC")
WebRecords ==
    {("ticker" :> AAA) @@ ("dividend_yield" :> N(6)) @@ ("dividend_score" :> N(3))
        @@ ("capital_score" :> N(4)) @@ ("ocean_market" :> S("sp500"))
        @@ ("sustainable" :> B(TRUE)),
     ("ticker" :> BBB) @@ ("dividend_yield" :> N(9)) @@ ("dividend_score" :> N(3))
        @@ ("capital_score" :> N(3)) @@ ("ocean_market" :> S("dax"))
        @@ ("sustainable" :> B(FALSE)),
     ("ticker" :> CCC) @@ ("dividend_yield" :> N(8)) @@ ("dividend_score" :> N(4))
        @@ ("capital_score" :> N(3)) @@ ("asset_type" :> S("etf")),
     ("ticker" :> AAA) @@ ("dividend_yield" :> N(7)),
     ("ticker" :> S("A.B")) @@ ("dividend_yield" :> N(5)) @@ ("capital_score" :> N(7)),
     ("ticker" :> S("A_B")) @@ ("dividend_yield" :> N(4)) @@ ("market" :> S("dax")),
     ("name" :> S("Ghost")) @@ ("dividend_yield" :> N(6))}

\* Collections of at most one record, of two records (AAA as two scans gave
\* it among them), and the records with scores in the six orders a file can
\* hold them.
WebShortFeeds == {<<>>} \cup {<<r>> : r \in WebRecords}
WebScored == {r \in WebRecords : Has(r, "dividend_score")}
WebPaired == {r \in WebRecords : Get(r, "ticker") \notin {BBB, CCC}}
WebFeeds ==
    WebShortFeeds
    \cup {<<r, q>> : r \in WebPaired, q \in WebPaired}
    \cup {f \in WebScored \X WebScored \X WebScored :
            f[1] # f[2] /\ f[2] # f[3] /\ f[1] # f[3]}

\* MAIN_LIST.json as the web application can find it: the flat list under
\* `stocks`, the flat list under `candidates` as the scanner saves it, and
\* the tiers.
WebDocuments ==
    {("stocks" :> f) : f \in WebFeeds}
    \cup
    {("candidates" :> <<r>>) @@ ("scan_date" :> D(1)) : r \in WebScored}
    \cup
    {("scan_date" :> D(1)) @@ (tiers[1] :> t1) @@ (tiers[3] :> t3) :
        t1 \in WebShortFeeds, t3 \in {<<>>, <<CHOOSE r \in WebScored : r["ticker"] = BBB>>}}

\* The cache directory when the application starts: empty, or with documents
\* that have no usable analyzed_at.
InitialCaches ==
    {<<>>,
     ("AAA.json" :> [ticker |-> AAA, price |-> N(9)])
        @@ ("A_B.json" :> [ticker |-> S("A.B"), price |-> N(9),
                           analyzed_at |-> S("yesterday")])}

\* request.args of /api/stocks with nothing in the query string.
DefaultQuery ==
    [min_yield |-> 5, market |-> Null, sustainable_only |-> FALSE,
     min_div_score |-> 0, min_cap_score |-> 0, asset_type |-> Null,
     stocks_only |-> FALSE, sort |-> "yield", limit |-> 100]

StockQueries ==
    {[DefaultQuery EXCEPT !.sort = o, !.min_yield = 0] :
        o \in {"yield", "score", "dividend_score", "capital_score"}}
    \cup
    {DefaultQuery,
     [DefaultQuery EXCEPT !.market = S("DAX"), !.min_yield = 0],
     [DefaultQuery EXCEPT !.market = S("sp")],
     [DefaultQuery EXCEPT !.sustainable_only = TRUE],
     [DefaultQuery EXCEPT !.min_div_score = 4],
     [DefaultQuery EXCEPT !.min_cap_score = 4],
     [DefaultQuery EXCEPT !.asset_type = S("etf")],
     [DefaultQuery EXCEPT !.stocks_only = TRUE],
     [DefaultQuery EXCEPT !.sort = "score", !.limit = 1]}

\* The tickers of /api/stock/<ticker> and /api/stock/<ticker>/full.
RequestTickers == {AAA, S("A.B"), S("A_B"), S("ZZZ")}

\* What yfinance gives generate_analysis: data, or an exception.
Fetches == {[ok |-> TRUE, price |-> N(10)], [ok |-> FALSE, price |-> Null]}

\* The clock moves in steps of half a day, MaxTicks times.
MaxTicks == 2
HalfDay == DAY \div 2

\* The tickers of a market file, and what yfinance gives for one: an
\* exception, a yield below the minimum, a yield above it.
TickerLists == {<<>>, <<"AAA">>, <<"AAA", "BBB">>, <<"AAA", "BBB", "CCC">>}
Infos ==
    {[ok |-> FALSE, dividendYield |-> 0, payoutRatio |-> 0],
     [ok |-> TRUE, dividendYield |-> 4, payoutRatio |-> 40],
     [ok |-> TRUE, dividendYield |-> 6, payoutRatio |-> 150]}

\* The sizes of the worker pool.
MaxWorkers == 2

----------------------------------------------------------------------------
(* State machine *)

EmptyTable == EmptyBag

\* The call that produced the current state: its arguments, whether it raised,
\* the rows that held its key before it (`old`) and, for a run, its count.
Call(kind, stock, market, scan_date, raised, old, total) ==
    [kind |-> kind, stock |-> stock, market |-> market, scan_date |-> scan_date,
     raised |-> raised, old |-> old, total |-> total]

\* scan_market was not called yet.
NoScan ==
    /\ scan = [pc |-> "idle", max_workers |-> 5]
    /\ futures = <<>>
    /\ yielded = {}
    /\ candidates = <<>>

\* No request was answered yet.
NoRequest == [endpoint |-> "none", arg |-> NoDict, status |-> 0, body |-> NoDict]

Init ==
    /\ stocks = EmptyTable
    /\ snapshots = EmptyTable
    /\ dividends = EmptyTable
    /\ scans = EmptyTable
    /\ op = Call("init", NoDict, Null, Null, FALSE, {}, 0)
    /\ main_list = NoFile
    /\ cache = <<>>
    /\ clock = 0
    /\ resp = NoRequest
    /\ NoScan

\* The connection's tables after a call.
Commit(conn) ==
    /\ stocks' = conn.stocks
    /\ snapshots' = conn.snapshots
    /\ dividends' = conn.dividends
    /\ scans' = conn.scans
    /\ UNCHANGED <<webvars, scanvars>>

\* sync_stock(conn, stock, market)
SyncStock(inputs, markets) ==
    \E stock \in inputs, market \in markets :
        LET r == sync_stock(Conn, stock, market)
            old == {o \in Rows(stocks) : o.ticker = Get(stock, "ticker")}
        IN  /\ Commit(r.conn)
            /\ op' = Call("sync_stock", stock, market, Null, r.raised, old, 0)

\* sync_snapshot(conn, stock, scan_date)
SyncSnapshot(inputs) ==
    \E stock \in inputs, scan_date \in Dates :
        LET r == sync_snapshot(Conn, stock, scan_date)
            old == {o \in Rows(snapshots) : /\ o.ticker = Get(stock, "ticker")
                                            /\ o.scan_date = scan_date}
        IN  /\ Commit(r.conn)
            /\ op' = Call("sync_snapshot", stock, Null, scan_date, r.raised, old, 0)

\* sync_dividend(conn, stock)
SyncDividend(inputs) ==
    \E stock \in inputs :
        LET r == sync_dividend(Conn, stock)
            old == {o \in Rows(dividends) :
                       /\ o.ticker = Get(stock, "ticker")
                       /\ o.ex_date = Get(stock, "ex_dividend_date")}
        IN  /\ Commit(r.conn)
            /\ op' = Call("sync_dividend", stock, Null, Null, r.raised, old, 0)

\* sync_from_json(json_path) when the file exists and holds `data`.
SyncFromJson ==
    /\ BagCardinality(scans) < MaxScans
    /\ \E data \in Documents :
       \E today \in (IF Has(data, "scan_date") THEN {D(1)} ELSE Dates) :
        LET r == sync_from_json(Conn, data, today)
        IN  /\ Commit(r.conn)
            /\ op' = Call("sync_from_json", NoDict, Null, r.scan_date,
                          FALSE, {}, r.total)

\* sync_from_json(json_path) when the file does not exist: return False.
SyncNoFile ==
    /\ UNCHANGED <<stocks, snapshots, dividends, scans, webvars, scanvars>>
    /\ op' = Call("sync_no_file", NoDict, Null, Null, FALSE, {}, 0)

\* Runs of sync_from_json.
Next == SyncFromJson \/ SyncNoFile
Spec == Init /\ [][Next]_vars

\* Calls of the three upserts on whole feed records.
NextStore ==
    \/ SyncStock(FeedRecords, {Null})
    \/ SyncSnapshot(FeedRecords)
    \/ SyncDividend(FeedRecords)
SpecStore == Init /\ [][NextStore]_vars

\* Calls of one upsert each, on records that vary in what it reads.
NextStock == SyncStock(StockInputs, MarketArgs)
SpecStock == Init /\ [][NextStock]_vars

NextSnapshot == SyncSnapshot(SnapshotInputs)
SpecSnapshot == Init /\ [][NextSnapshot]_vars

NextDividend == SyncDividend(DividendInputs)
SpecDividend == Init /\ [][NextDividend]_vars

\* The files as a request finds them.
Disk == [main_list |-> main_list, cache |-> cache]

\* A request answered with r: the files it leaves and the response.
Answer(endpoint, arg, r) ==
    /\ main_list' = r.disk.main_list
    /\ cache' = r.disk.cache
    /\ resp' = [endpoint |-> endpoint, arg |-> arg,
                status |-> r.status, body |-> r.body]

ApiStats ==
    /\ Answer("api_stats", NoDict, api_stats(Disk))
    /\ UNCHANGED <<dbvars, scanvars, clock>>

ApiStocks ==
    \E q \in StockQueries :
        /\ Answer("api_stocks", q, api_stocks(Disk, q))
        /\ UNCHANGED <<dbvars, scanvars, clock>>

ApiTopScores ==
    \E limit \in {1, 20}, min \in {0, 5} :
        /\ Answer("api_top_scores", [limit |-> limit, min_yield |-> min],
                  api_top_scores(Disk, limit, min))
        /\ UNCHANGED <<dbvars, scanvars, clock>>

ApiStockDetail ==
    \E ticker \in RequestTickers :
        /\ Answer("api_stock_detail", [ticker |-> ticker],
                  api_stock_detail(Disk, ticker))
        /\ UNCHANGED <<dbvars, scanvars, clock>>

ApiStockFull ==
    \E ticker \in RequestTickers, info \in Fetches :
        /\ Answer("api_stock_full", [ticker |-> ticker],
                  api_stock_full(Disk, ticker, clock, info))
        /\ UNCHANGED <<dbvars, scanvars, clock>>

ApiMarkets ==
    /\ Answer("api_markets", NoDict, api_markets(Disk))
    /\ UNCHANGED <<dbvars, scanvars, clock>>

ApiTop ==
    \E n \in {1, 3} :
        /\ Answer("api_top", [n |-> n], api_top(Disk, n))
        /\ UNCHANGED <<dbvars, scanvars, clock>>

\* Time passes between two requests.
Tick ==
    /\ clock < MaxTicks * HalfDay
    /\ clock' = clock + HalfDay
    /\ UNCHANGED <<dbvars, scanvars, main_list, cache, resp>>

\* The web application started over any MAIN_LIST.json, or none.
InitWeb ==
    /\ stocks = EmptyTable
    /\ snapshots = EmptyTable
    /\ dividends = EmptyTable
    /\ scans = EmptyTable
    /\ op = Call("init", NoDict, Null, Null, FALSE, {}, 0)
    /\ main_list \in {NoFile} \cup {File(d) : d \in WebDocuments}
    /\ cache \in InitialCaches
    /\ clock = 0
    /\ resp = NoRequest
    /\ NoScan

NextWeb ==
    \/ ApiStats
    \/ ApiStocks
    \/ ApiTopScores
    \/ ApiStockDetail
    \/ ApiStockFull
    \/ ApiMarkets
    \/ ApiTop
    \/ Tick
SpecWeb == InitWeb /\ [][NextWeb]_vars

\* The futures in a state.
InState(state) == {i \in DOMAIN futures : futures[i].state = state}

\* scan_market(market, max_workers): the tickers are loaded and, unless there
\* are none, each is submitted to the executor.
ScanMarket ==
    /\ scan.pc \in {"idle", "returned"}
    /\ \E tickers \in TickerLists, max_workers \in 1..MaxWorkers :
        /\ scan' = [pc |-> IF tickers = <<>> THEN "returned" ELSE "collecting",
                    max_workers |-> max_workers]
        /\ futures' = [i \in 1..Len(tickers) |->
                         [ticker |-> tickers[i], state |-> "pending",
                          result |-> None]]
    /\ yielded' = {}
    /\ candidates' = <<>>
    /\ UNCHANGED <<dbvars, webvars>>

\* A worker thread takes the next work item off the executor's queue.
WorkerStart ==
    /\ InState("pending") # {}
    /\ Cardinality(InState("running")) < scan.max_workers
    /\ LET i == CHOOSE k \in InState("pending") :
                    \A m \in InState("pending") : k <= m
       IN  futures' = [futures EXCEPT ![i].state = "running"]
    /\ UNCHANGED <<dbvars, webvars, scan, yielded, candidates>>

\* A worker's get_stock_data returns and its future completes.
WorkerFinish ==
    \E i \in InState("running"), info \in Infos :
        /\ futures' = [futures EXCEPT
                          ![i].state = "finished",
                          ![i].result = get_stock_data(futures[i].ticker, info)]
        /\ UNCHANGED <<dbvars, webvars, scan, yielded, candidates>>

\* as_completed yields a future that has completed, and the loop body runs.
Collect ==
    /\ scan.pc = "collecting"
    /\ \E i \in InState("finished") \ yielded :
        /\ yielded' = yielded \cup {i}
        /\ candidates' = collect(candidates, futures[i].result)
    /\ UNCHANGED <<dbvars, webvars, scan, futures>>

\* as_completed has yielded every future: the loop and the executor's `with`
\* block end and scan_market returns candidates.
ScanReturn ==
    /\ scan.pc = "collecting"
    /\ yielded = DOMAIN futures
    /\ scan' = [scan EXCEPT !.pc = "returned"]
    /\ UNCHANGED <<dbvars, webvars, futures, yielded, candidates>>

NextScan ==
    \/ ScanMarket
    \/ WorkerStart
    \/ WorkerFinish
    \/ Collect
    \/ ScanReturn
SpecScan == Init /\ [][NextScan]_vars

\* The main thread is scheduled: it takes what as_completed has for it and
\* leaves the loop when nothing is left.  Nothing makes a fetch return.
FairSpecScan == SpecScan /\ WF_vars(Collect) /\ WF_vars(ScanReturn)

----------------------------------------------------------------------------
(* Claims *)

\* No row twice, and no two rows under one key.
OneRowPerKey(tbl, key1, key2) ==
    /\ \A r \in Rows(tbl) : CopiesIn(r, tbl) = 1
    /\ \A r, q \in Rows(tbl) : (r[key1] = q[key1] /\ r[key2] = q[key2]) => r = q

\* C1: after any sequence of sync runs the stocks table holds at most one row
\* per ticker, the snapshots table at most one row per (ticker, scan_date) and
\* the dividends table at most one row per (ticker, ex_date).
C1_KeyUniqueness ==
    /\ OneRowPerKey(stocks, "ticker", "ticker")
    /\ OneRowPerKey(snapshots, "ticker", "scan_date")
    /\ OneRowPerKey(dividends, "ticker", "ex_date")

\* Two runs that each upserted records, the later one two of them, all under
\* one ticker, scan date and ex-dividend date: one row in each table.
C1_Witness ==
    /\ op.kind = "sync_from_json"
    /\ op.total = 2
    /\ BagCardinality(scans) = 2
    /\ \A s \in Rows(scans) : s.total_scanned # N(0)
    /\ BagCardinality(stocks) = 1
    /\ BagCardinality(snapshots) = 1
    /\ BagCardinality(dividends) = 1

\* The three tables a run writes the feed into.
Tables(conn) == <<conn.stocks, conn.snapshots, conn.dividends>>

\* C6: for every document and scan date, running sync_from_json twice in a row
\* leaves the stocks, snapshots and dividends tables as one run leaves them,
\* from every state the store can be in.
C6_SyncIdempotent ==
    \A data \in Documents :
        \A today \in (IF Has(data, "scan_date") THEN {D(1)} ELSE Dates) :
            LET once == sync_from_json(Conn, data, today)
                twice == sync_from_json(once.conn, data, today)
            IN  Tables(twice.conn) = Tables(once.conn)

\* The state two runs of one two-record document reach: the scan log holds the
\* same row twice and the tables are what the document writes into an empty
\* store.
C6_Witness ==
    /\ op.kind = "sync_from_json"
    /\ op.total = 2
    /\ \E s \in Rows(scans) : CopiesIn(s, scans) = 2
    /\ \E data \in Documents :
        /\ Len(json_stocks(data)) = 2
        /\ Get(data, "scan_date") = op.scan_date
        /\ Tables(sync_from_json([Conn EXCEPT !.stocks = EmptyTable,
                                              !.snapshots = EmptyTable,
                                              !.dividends = EmptyTable],
                                 data, op.scan_date).conn) = Tables(Conn)

\* The market a call of sync_stock supplies: its market argument, else the
\* record's ocean_market.
Supplied(call) ==
    IF Truthy(call.market) THEN call.market ELSE Get(call.stock, "ocean_market")

\* The row of a table under a record's ticker (and date).
StockRowsOf(tbl, stock) == {r \in Rows(tbl) : r.ticker = Get(stock, "ticker")}

\* C2: a sync_stock that supplies no market (neither the market argument nor
\* the record's market field) leaves a stored non-null market of that ticker
\* unchanged.
C2_NullMarketKeepsMarket ==
    [][(/\ op'.kind = "sync_stock"
        /\ op'.market = Null
        /\ Get(op'.stock, "ocean_market") = Null)
       => \A o \in StockRowsOf(stocks, op'.stock) :
            o.market # Null
            => /\ StockRowsOf(stocks', op'.stock) # {}
               /\ \A r \in StockRowsOf(stocks', op'.stock) : r.market = o.market
      ]_vars

\* A ticker stored with market "sp500" was upserted again without a market and
\* with another name, and still has it.
C2_Witness ==
    /\ op.kind = "sync_stock"
    /\ op.market = Null
    /\ Get(op.stock, "ocean_market") = Null
    /\ \E o \in op.old : o.market = S("sp500") /\ o.name # Get(op.stock, "name")
    /\ \E r \in StockRowsOf(stocks, op.stock) :
        r.market = S("sp500") /\ r.name = Get(op.stock, "name")

\* C3, as stated: once a ticker has a non-empty market, no later sync_stock
\* changes it, whatever market it supplies.
C3_FirstWriteWins ==
    [][\A o \in Rows(stocks) :
         Truthy(o.market)
         => \E r \in Rows(stocks') : r.ticker = o.ticker /\ r.market = o.market
      ]_vars

\* C3, amended: a sync_stock of an existing ticker sets its market to the
\* market it supplies when that is non-null, also over a stored non-null market,
\* and keeps the stored market when it supplies null.
C3_LastNonNullWins ==
    [][(op'.kind = "sync_stock" /\ ~op'.raised)
       => \A o \in StockRowsOf(stocks, op'.stock) :
            /\ StockRowsOf(stocks', op'.stock) # {}
            /\ \A r \in StockRowsOf(stocks', op'.stock) :
                r.market = (IF Supplied(op') # Null THEN Supplied(op')
                            ELSE o.market)
      ]_vars

\* A ticker stored with market "sp500" was upserted with "dax" and now has "dax".
C3_Witness ==
    /\ op.kind = "sync_stock"
    /\ Supplied(op) = S("dax")
    /\ \E o \in op.old : o.market = S("sp500")
    /\ \E r \in StockRowsOf(stocks, op.stock) : r.market = S("dax")

\* The dividend rows under a record's ticker and ex-dividend date.
DividendRowsOf(tbl, stock) ==
    {r \in Rows(tbl) : /\ r.ticker = Get(stock, "ticker")
                       /\ r.ex_date = Get(stock, "ex_dividend_date")}

\* C4: a sync_dividend on an existing (ticker, ex_date) keeps the stored amount
\* (currency) when the record's is null and replaces it when it is not; and no
\* call ever turns a known amount or currency back to null.
C4_DividendCoalesce ==
    [][/\ (op'.kind = "sync_dividend" /\ ~op'.raised)
          => \A o \in DividendRowsOf(dividends, op'.stock) :
               /\ DividendRowsOf(dividends', op'.stock) # {}
               /\ \A r \in DividendRowsOf(dividends', op'.stock) :
                   /\ r.amount = (IF Get(op'.stock, "dividend_rate") # Null
                                  THEN Get(op'.stock, "dividend_rate")
                                  ELSE o.amount)
                   /\ r.currency = (IF Get(op'.stock, "currency") # Null
                                    THEN Get(op'.stock, "currency")
                                    ELSE o.currency)
       /\ \A o \in Rows(dividends) :
            \E r \in Rows(dividends') :
                /\ r.ticker = o.ticker /\ r.ex_date = o.ex_date
                /\ (o.amount # Null => r.amount # Null)
                /\ (o.currency # Null => r.currency # Null)
      ]_vars

\* An event stored with amount 2 and a currency was upserted again by a record
\* with neither, and still has both.
C4_Witness ==
    /\ op.kind = "sync_dividend"
    /\ ~op.raised
    /\ Get(op.stock, "dividend_rate") = Null
    /\ Get(op.stock, "currency") = Null
    /\ \E o \in op.old : o.amount = N(2) /\ o.currency = S("USD")
    /\ \E r \in DividendRowsOf(dividends, op.stock) :
        r.amount = N(2) /\ r.currency = S("USD")

\* C5: a sync_dividend of a record whose ex_dividend_date is null or absent
\* leaves the dividends table as it was, whatever else the record holds.
C5_NoExDateNoOp ==
    [][(op'.kind = "sync_dividend" /\ Get(op'.stock, "ex_dividend_date") = Null)
       => (dividends' = dividends /\ ~op'.raised)
      ]_vars

\* A record with an amount and a currency but no date was handed to
\* sync_dividend while the table held rows.
C5_Witness ==
    /\ op.kind = "sync_dividend"
    /\ Get(op.stock, "ex_dividend_date") = Null
    /\ Get(op.stock, "dividend_rate") # Null
    /\ Get(op.stock, "currency") # Null
    /\ BagCardinality(dividends) >= 2

\* A store with nothing in it.
EmptyConn == [stocks |-> EmptyTable, snapshots |-> EmptyTable,
              dividends |-> EmptyTable, scans |-> EmptyTable]

\* The rows the last call writes when it is the whole history.
AloneStocks == Rows(sync_stock(EmptyConn, op.stock, op.market).conn.stocks)
AloneSnapshots ==
    Rows(sync_snapshot(EmptyConn, op.stock, op.scan_date).conn.snapshots)
AloneDividends == Rows(sync_dividend(EmptyConn, op.stock).conn.dividends)

\* A field as the key's row held it before the last call: null when it had none.
Before(field) == IF op.old = {} THEN Null ELSE (CHOOSE o \in op.old : TRUE)[field]

\* C7, as stated: two histories of upserts that end with the same final write
\* for a key leave the same row, whatever was written before: the row is the
\* one the final write leaves when nothing came before it.
C7_FinalWriteDecides ==
    /\ (op.kind = "sync_stock" /\ ~op.raised) => AloneStocks \subseteq Rows(stocks)
    /\ (op.kind = "sync_snapshot" /\ ~op.raised)
       => AloneSnapshots \subseteq Rows(snapshots)
    /\ (op.kind = "sync_dividend" /\ ~op.raised)
       => AloneDividends \subseteq Rows(dividends)

\* C7, amended: the snapshot row is the one the final write alone leaves; the
\* stock and the dividend row are too, except for market, amount and currency
\* where the final write has null: these keep what the row held before.
C7_ConvergesWhereSupplied ==
    /\ (op.kind = "sync_snapshot" /\ ~op.raised)
       => AloneSnapshots \subseteq Rows(snapshots)
    /\ (op.kind = "sync_stock" /\ ~op.raised)
       => \A a \in AloneStocks :
            [a EXCEPT !.market = IF a.market # Null THEN a.market
                                 ELSE Before("market")] \in Rows(stocks)
    /\ (op.kind = "sync_dividend" /\ ~op.raised)
       => \A a \in AloneDividends :
            [a EXCEPT !.amount = IF a.amount # Null THEN a.amount
                                 ELSE Before("amount"),
                      !.currency = IF a.currency # Null THEN a.currency
                                   ELSE Before("currency")] \in Rows(dividends)

\* A stock written with a name, a currency and a market was written again by a
\* record with none of them: the name and the currency are gone, the market
\* stayed.
C7_Witness ==
    /\ op.kind = "sync_stock"
    /\ ~op.raised
    /\ DOMAIN op.stock = {"ticker", "ex_dividend_date"}
    /\ \E o \in op.old :
        o.name = S("Alpha") /\ o.currency = S("USD") /\ o.market = S("sp500")
    /\ \E r \in StockRowsOf(stocks, op.stock) :
        r.name = Null /\ r.currency = Null /\ r.market = S("sp500")

\* The snapshot columns read from one key: <<column, key>>.
PlainColumns ==
    {<<"price", "price">>, <<"pe_ratio", "pe_ratio">>,
     <<"market_cap", "market_cap">>, <<"week_52_high", "52w_high">>,
     <<"week_52_low", "52w_low">>, <<"change_6m", "change_6m">>,
     <<"change_12m", "change_12m">>, <<"max_drawdown_12m", "max_drawdown_12m">>,
     <<"beta", "beta">>, <<"dividend_score", "dividend_score">>,
     <<"capital_score", "capital_score">>}

\* The snapshot columns read from a key or its alias: <<column, key, alias>>.
AliasedColumns ==
    {<<"dividend_yield", "dividend_yield", "yield">>,
     <<"dividend_rate", "dividend_rate", "div_rate">>,
     <<"payout_ratio", "payout_ratio", "payout">>,
     <<"dist_from_high", "dist_from_high", "discount_from_high">>}

\* The snapshot rows under the last call's ticker and scan date.
SnapshotRowsOf(tbl, call) ==
    {r \in Rows(tbl) : /\ r.ticker = Get(call.stock, "ticker")
                       /\ r.scan_date = call.scan_date}

\* The last call was a sync_snapshot onto an existing (ticker, scan_date) row.
Rewrote == op.kind = "sync_snapshot" /\ ~op.raised /\ op.old # {}

\* C8, as stated: after a sync_snapshot onto an existing row every column has
\* the value the new write supplies for it, and null when the new write has no
\* key for it.
C8_OverwriteAbsentIsNull ==
    Rewrote
    => /\ SnapshotRowsOf(snapshots, op) # {}
       /\ \A r \in SnapshotRowsOf(snapshots, op) :
            /\ \A c \in PlainColumns : r[c[1]] = Get(op.stock, c[2])
            /\ r.sustainable = Get(op.stock, "sustainable")
            /\ \A c \in AliasedColumns :
                 r[c[1]] = (IF Has(op.stock, c[2]) THEN op.stock[c[2]]
                            ELSE Get(op.stock, c[3]))

\* C8, amended: after a sync_snapshot onto an existing row every column is
\* decided by the new write alone: a column read from one key has that key's
\* value, null when the key is absent; sustainable is true when absent; an
\* aliased column has the value of its key or of its alias in the new write.
C8_FullOverwrite ==
    Rewrote
    => /\ SnapshotRowsOf(snapshots, op) # {}
       /\ \A r \in SnapshotRowsOf(snapshots, op) :
            /\ \A c \in PlainColumns : r[c[1]] = Get(op.stock, c[2])
            /\ r.sustainable = GetD(op.stock, "sustainable", B(TRUE))
            /\ \A c \in AliasedColumns :
                 r[c[1]] \in {Get(op.stock, c[2]), Get(op.stock, c[3])}

\* A snapshot stored with both scores and a yield was rewritten by a record
\* with neither: the scores and the yield are null.
C8_Witness ==
    /\ Rewrote
    /\ ~Has(op.stock, "dividend_score")
    /\ ~Has(op.stock, "capital_score")
    /\ ~Has(op.stock, "dividend_yield")
    /\ \E o \in op.old : /\ o.dividend_score = N(3)
                         /\ o.capital_score = N(4)
                         /\ o.dividend_yield = N(6)
    /\ \A r \in SnapshotRowsOf(snapshots, op) :
        /\ r.dividend_score = Null
        /\ r.capital_score = Null
        /\ r.dividend_yield = Null

\* C9: each aliased column holds the value of the first key present in the
\* record, the primary key before its alias, also when that value is zero.
C9_FirstPresentWins ==
    (op.kind = "sync_snapshot" /\ ~op.raised)
    => \A r \in SnapshotRowsOf(snapshots, op) :
         \A c \in AliasedColumns :
            r[c[1]] = (IF Has(op.stock, c[2]) THEN op.stock[c[2]]
                       ELSE Get(op.stock, c[3]))

\* C10: for a record with no sustainable field the stored flag is true when
\* the record has no payout_ratio, and otherwise true exactly when
\* payout_ratio <= 100.
C10_SustainableFromPayout ==
    (op.kind = "sync_snapshot" /\ ~op.raised /\ ~Has(op.stock, "sustainable"))
    => \A r \in SnapshotRowsOf(snapshots, op) :
         r.sustainable = (IF Has(op.stock, "payout_ratio")
                          THEN sustainable_of(op.stock["payout_ratio"])
                          ELSE B(TRUE))

\* One of the three upserts raises for this record.
Fails(stock, scan_date) ==
    \/ sync_stock(EmptyConn, stock, Null).raised
    \/ sync_snapshot(EmptyConn, stock, scan_date).raised
    \/ sync_dividend(EmptyConn, stock).raised

\* The positions of a feed whose record goes through the three upserts.
Succeeded(list, scan_date) ==
    {i \in 1..Len(list) : ~Fails(list[i], scan_date)}

\* C11: from every state of the store and for every document, a run of
\* sync_from_json goes past the records that fail: every record that does not
\* fail has its stock row, its snapshot row of the scan date and, when it has
\* an ex-dividend date, its dividend row after the run, the last such record of
\* a ticker decides the snapshot, and the count the run returns and logs is the
\* number of records that did not fail.
C11_FailureIsolation ==
    \A data \in Documents :
        \A today \in (IF Has(data, "scan_date") THEN {D(1)} ELSE Dates) :
            LET list == json_stocks(data)
                scan_date == GetD(data, "scan_date", today)
                ok == Succeeded(list, scan_date)
                r == sync_from_json(Conn, data, today)
                logged == [scan_date |-> scan_date,
                           total_scanned |-> N(Cardinality(ok)),
                           candidates_found |-> N(Cardinality(ok)),
                           source |-> MAIN_LIST]
            IN  /\ r.total = Cardinality(ok)
                /\ CopiesIn(logged, r.conn.scans) = CopiesIn(logged, scans) + 1
                /\ BagCardinality(r.conn.scans) = BagCardinality(scans) + 1
                /\ \A i \in ok :
                    /\ StockRowsOf(r.conn.stocks, list[i]) # {}
                    /\ \E n \in Rows(r.conn.snapshots) :
                        n.ticker = list[i]["ticker"] /\ n.scan_date = scan_date
                    /\ Truthy(Get(list[i], "ex_dividend_date"))
                       => DividendRowsOf(r.conn.dividends, list[i]) # {}
                    /\ (\A j \in ok : j > i => list[j]["ticker"] # list[i]["ticker"])
                       => snapshots_values(list[i], scan_date)
                            \in Rows(r.conn.snapshots)

\* The state a run over a record with no ticker followed by a record of AAA
\* leaves: the count is 1, it is logged, and AAA is stored.
C11_Witness ==
    /\ op.kind = "sync_from_json"
    /\ op.total = 1
    /\ \E s \in Rows(scans) : s.total_scanned = N(1)
    /\ \E r \in Rows(stocks) : r.ticker = AAA
    /\ \E n \in Rows(snapshots) : n.ticker = AAA /\ n.scan_date = op.scan_date
    /\ \E data \in Documents :
        LET list == json_stocks(data)
        IN  /\ Len(list) = 2
            /\ Fails(list[1], op.scan_date)
            /\ ~Fails(list[2], op.scan_date)
            /\ Get(data, "scan_date") = op.scan_date
            /\ Tables(sync_from_json(EmptyConn, data, op.scan_date).conn)
                 = Tables(Conn)

\* C12: every snapshot row and every dividend row has a stock row with its
\* ticker, in every state the upserts can bring the store to; a sync_snapshot
\* for a ticker with no stock row leaves one.
C12_ReferentialIntegrity ==
    /\ \A n \in Rows(snapshots) : \E k \in Rows(stocks) : k.ticker = n.ticker
    /\ \A d \in Rows(dividends) : \E k \in Rows(stocks) : k.ticker = d.ticker

\* The list a response carries.
Listed == resp.body.list

\* The records of a list that have a ticker, by position.
Tickered(list) == {i \in 1..Len(list) : Has(list[i], "ticker")}

\* C13: the list /api/stocks returns never holds two rows of one ticker.
C13_OneRowPerTicker ==
    resp.endpoint = "api_stocks"
    => \A i, j \in Tickered(Listed) :
         i # j => Listed[i]["ticker"] # Listed[j]["ticker"]

\* dividend_score + capital_score and dividend_yield, a missing one as 0.
ScoreSum(s) == num(s, "dividend_score") + num(s, "capital_score")
Yield(s) == num(s, "dividend_yield")

\* By score sum descending, equal sums by yield descending.
ScoreOrdered(list) ==
    \A i \in 1..(Len(list) - 1) :
        \/ ScoreSum(list[i]) > ScoreSum(list[i + 1])
        \/ /\ ScoreSum(list[i]) = ScoreSum(list[i + 1])
           /\ Yield(list[i]) >= Yield(list[i + 1])

\* C14: the list /api/stocks returns for sort=score, and the list
\* /api/top-scores returns, are ordered by dividend_score + capital_score
\* descending and, among equal sums, by dividend_yield descending, a missing
\* score counting as 0; /api/stocks returns every record that passes the filter.
C14_ScoreOrdering ==
    /\ (resp.endpoint = "api_stocks" /\ resp.arg.sort = "score")
       => /\ ScoreOrdered(Listed)
          /\ resp.arg.limit >= Len(get_all_stocks(Disk))
             => \A i \in 1..Len(get_all_stocks(Disk)) :
                  stocks_filter(get_all_stocks(Disk)[i], resp.arg)
                  => \E k \in 1..Len(Listed) : Listed[k] = get_all_stocks(Disk)[i]
    /\ resp.endpoint = "api_top_scores" => ScoreOrdered(Listed)

\* A file holding BBB (sum 6, yield 9), AAA (sum 7, yield 6), CCC (sum 7,
\* yield 8) was listed by score: CCC, AAA, BBB.
C14_Witness ==
    /\ resp.endpoint = "api_stocks"
    /\ resp.arg.sort = "score"
    /\ Len(Listed) = 3
    /\ <<Listed[1]["ticker"], Listed[2]["ticker"], Listed[3]["ticker"]>>
         = <<CCC, AAA, BBB>>
    /\ LET list == get_all_stocks(Disk)
       IN  <<list[1]["ticker"], list[2]["ticker"], list[3]["ticker"]>>
             = <<BBB, AAA, CCC>>

\* C15: /api/stock/<ticker> for a ticker that no record of the collection has
\* answers 404 with the error 'Stock not found', whatever the collection holds.
C15_UnknownTickerNotFound ==
    (/\ resp.endpoint = "api_stock_detail"
     /\ \A i \in Tickered(get_all_stocks(Disk)) :
            get_all_stocks(Disk)[i]["ticker"] # resp.arg.ticker)
    => /\ resp.status = 404
       /\ resp.body = [error |-> S("Stock not found")]

\* C16, as stated: no request changes a file: the collection and every cache
\* document are after the request what they were before it.
C16_ReadOnly == [][main_list' = main_list /\ cache' = cache]_vars

\* C16, amended: no request changes MAIN_LIST.json, and the only write to a
\* cache document is that of /api/stock/<ticker>/full when it generates an
\* analysis: the analysis it returns, into the file of the ticker.
C16_OnlyAnalysisWritten ==
    [][/\ main_list' = main_list
       /\ cache' # cache
          => /\ resp'.endpoint = "api_stock_full"
             /\ resp'.status = 200
             /\ resp'.body.cached = FALSE
             /\ ~Has(resp'.body.analysis, "error")
             /\ cache' = (cache_file(resp'.arg.ticker) :> resp'.body.analysis)
                            @@ cache
      ]_vars

\* /api/stock/AAA/full generated an analysis and the cache holds it; the
\* collection is on disk as it was.
C16_Witness ==
    /\ resp.endpoint = "api_stock_full"
    /\ resp.arg.ticker = AAA
    /\ resp.status = 200
    /\ resp.body.cached = FALSE
    /\ "AAA.json" \in DOMAIN cache
    /\ cache["AAA.json"] = resp.body.analysis
    /\ resp.body.analysis["analyzed_at"] = <<"time", clock>>
    /\ main_list.exists
    /\ Len(get_all_stocks(Disk)) = 2

\* The flat list of a document, under either of its names, else its tiers.
EitherShape(data) ==
    IF Has(data, "stocks") THEN data["stocks"]
    ELSE IF Has(data, "candidates") THEN data["candidates"]
    ELSE extend_tiers(data, 1)

\* C17: the records the web application serves and the records
\* sync_from_json processes are the same list, for every MAIN_LIST.json: the
\* flat list under `stocks` or `candidates`, else the tiers in order.
C17_SameRecords ==
    main_list.exists
    => /\ get_all_stocks(Disk) = json_stocks(main_list.data)
       /\ get_all_stocks(Disk) = EitherShape(main_list.data)

\* A cache document with a timestamp less than 24 hours before the clock.
FreshAt(files, name, time) ==
    /\ name \in DOMAIN files
    /\ Has(files[name], "analyzed_at")
    /\ files[name]["analyzed_at"][1] = "time"
    /\ time - files[name]["analyzed_at"][2] < DAY

\* C18: a request of /api/stock/<ticker>/full for a ticker of the collection
\* answers cached=true with the cached document exactly when the ticker's
\* cache file holds one analysed less than 24 hours before; otherwise it
\* answers cached=false with an analysis generated now, stored in the file when
\* the generation succeeded, while a failed one leaves the cache alone.  No
\* step changes a cache document that is still fresh, so the requests of the
\* next 24 hours get it.
C18_CacheFreshness ==
    [][/\ \A name \in DOMAIN cache :
            FreshAt(cache, name, clock)
            => name \in DOMAIN cache' /\ cache'[name] = cache[name]
       /\ (clock' = clock /\ resp'.endpoint = "api_stock_full"
           /\ resp'.status = 200)
          => LET name == cache_file(resp'.arg.ticker)
                 analysis == resp'.body.analysis
             IN  /\ resp'.body.cached = FreshAt(cache, name, clock)
                 /\ resp'.body.cached
                    => analysis = cache[name] /\ cache' = cache
                 /\ ~resp'.body.cached
                    => \/ Has(analysis, "error") /\ cache' = cache
                       \/ /\ analysis["ticker"] = resp'.arg.ticker
                          /\ analysis["analyzed_at"] = <<"time", clock>>
                          /\ cache' = (name :> analysis) @@ cache
      ]_vars

\* Half a day after AAA was analysed, /api/stock/AAA/full answers with that
\* analysis from the cache.
C18_Witness ==
    /\ resp.endpoint = "api_stock_full"
    /\ resp.arg.ticker = AAA
    /\ resp.status = 200
    /\ resp.body.cached = TRUE
    /\ clock = HalfDay
    /\ resp.body.analysis["analyzed_at"] = <<"time", 0>>
    /\ cache["AAA.json"] = resp.body.analysis

\* The snapshot row is under the key of this call.
UnderKey(r, call) ==
    r.ticker = Get(call.stock, "ticker") /\ r.scan_date = call.scan_date

\* C19: a sync_snapshot of a ticker for a scan date leaves every snapshot row
\* of another date or another ticker as it was, and leaves under its own
\* (ticker, scan_date) one row, the one written; a call that raises changes
\* nothing.
C19_HistoryRetained ==
    [][op'.kind = "sync_snapshot"
       => /\ op'.raised => snapshots' = snapshots
          /\ ~op'.raised
             => /\ \A r \in Rows(snapshots) \cup Rows(snapshots') :
                     ~UnderKey(r, op')
                     => CopiesIn(r, snapshots') = CopiesIn(r, snapshots)
                /\ \A r \in Rows(snapshots') :
                     UnderKey(r, op')
                     => /\ r = snapshots_values(op'.stock, op'.scan_date)
                        /\ CopiesIn(r, snapshots') = 1
                /\ \E r \in Rows(snapshots') : UnderKey(r, op')
      ]_vars

\* AAA was synced for the first date with yield 6 and then for the second
\* date with yield 5: the store holds both rows, each as written.
C19_Witness ==
    /\ op.kind = "sync_snapshot"
    /\ ~op.raised
    /\ op.old = {}
    /\ Get(op.stock, "ticker") = AAA
    /\ op.scan_date = D(2)
    /\ \E r \in Rows(snapshots) :
        r.ticker = AAA /\ r.scan_date = D(1) /\ r.dividend_yield = N(6)
    /\ \E r \in Rows(snapshots) :
        r.ticker = AAA /\ r.scan_date = D(2) /\ r.dividend_yield = N(5)
    /\ Cardinality({r \in Rows(snapshots) : r.ticker = AAA}) = 2

\* The futures as_completed has yielded whose fetch returned a record.
Recorded == {i \in yielded : ~futures[i].result.none}

\* The candidates are the records of the yielded futures, each once: none is
\* lost, none is twice, and nothing stands for a fetch that returned None.
CandidatesMatch ==
    /\ \A i \in yielded : futures[i].state = "finished"
    /\ Len(candidates) = Cardinality(Recorded)
    /\ \A i \in Recorded :
         Cardinality({k \in 1..Len(candidates) :
                         candidates[k] = futures[i].result.value}) = 1
    /\ \A i \in yielded \ Recorded :
         \A k \in 1..Len(candidates) :
            candidates[k]["ticker"] # S(futures[i].ticker)
    /\ scan.pc = "returned"
       => /\ yielded = DOMAIN futures
          /\ {candidates[k] : k \in 1..Len(candidates)}
               = {futures[i].result.value :
                     i \in {j \in DOMAIN futures : ~futures[j].result.none}}

\* Every submitted fetch has completed and the scan has not returned yet.
AllFetched == scan.pc = "collecting" /\ InState("finished") = DOMAIN futures

\* C20: for every size of the pool and every order in which the fetches
\* complete, the candidates are at every moment exactly the records of the
\* futures collected so far, each once, and on return those of all submitted
\* tickers whose fetch returned a record, whatever the order; and once every
\* fetch has completed, scan_market returns.
C20_ScanMarket == []CandidatesMatch /\ (AllFetched ~> scan.pc = "returned")

\* A scan of AAA, BBB, CCC with two workers returned: BBB completed before
\* AAA, and the fetch of CCC gave nothing.
C20_Witness ==
    /\ scan.pc = "returned"
    /\ scan.max_workers = 2
    /\ Len(futures) = 3
    /\ futures[3].result.none
    /\ Len(candidates) = 2
    /\ candidates[1]["ticker"] = BBB
    /\ candidates[2]["ticker"] = AAA

====
